---- MODULE Spec2Model ----
(***************************************************************************)
(* The audit-event store of src/component/lib.ts over the table and        *)
(* indexes of src/component/schema.ts.                                     *)
(*                                                                         *)
(* The auditEvents table is the sequence `store`, kept in creation order   *)
(* (the host's default order, ascending _creationTime); document ids are   *)
(* drawn from the counter `nextId` and never reused.  Every exposed        *)
(* function runs as one transaction, so each is one action.  An optional   *)
(* value (v.optional) is a sequence of length at most one: None when the   *)
(* field is absent, Some(x) when it holds x.                               *)
(***************************************************************************)
EXTENDS Integers, Sequences, FiniteSets, TLC

VARIABLES store, nextId, now, ret, pager, retention, issued, calls

vars == <<store, nextId, now, ret, pager, retention, issued, calls>>

\* ------------------------------------------------------------------ bounds
MaxEvents == 2
MaxId == 3
MaxTime == 2
MaxRetained == 3
MaxCallers == 2

\* ------------------------------------------------------- program constants
DefaultLimit == 50
DefaultBatchSize == 100
DefaultVersion == 1
\* Time is counted in seconds, the source's milliseconds divided by 1000:
\* 1000 * 60 * 60 * 24 ms and 30 * 24 * 60 * 60 * 1000 ms.
OneDay == 86400
ThirtyDays == 2592000

\* --------------------------------------------------------- optional values
None == <<>>
Some(x) == <<x>>

\* a ?? d
OrElse(o, d) == IF o = None THEN d ELSE o[1]

\* A test that takes every key for absent.
Truthy_Never(o) == FALSE

\* if (s) for an optional string: absent and "" are both falsy
\* a test for presence instead of truthiness
Truthy_Present(o) == o /= None

Truthy(o) == o /= None /\ o[1] /= ""

\* ----------------------------------------------------------------- helpers
Min(a, b) == IF a <= b THEN a ELSE b

\* Array.prototype.slice(0, n) and query.take(n)
Take(s, n) == SubSeq(s, 1, Min(n, Len(s)))

Reverse(s) == [i \in 1..Len(s) |-> s[Len(s) + 1 - i]]

Range(s) == {s[i] : i \in 1..Len(s)}

Ids(s) == {s[i]._id : i \in 1..Len(s)}

\* Array.prototype.filter
Filter(s, P(_)) == SelectSeq(s, P)

\* Place x, created after every element of the sorted sequence, behind the
\* elements whose occurredAt is not greater: index order is (occurredAt,
\* _creationTime).
InsertByOccurredAt(sorted, x) ==
    LET k == Cardinality({i \in 1..Len(sorted) : sorted[i].occurredAt <= x.occurredAt})
    IN SubSeq(sorted, 1, k) \o <<x>> \o SubSeq(sorted, k + 1, Len(sorted))

RECURSIVE SortByOccurredAt(_)
SortByOccurredAt(s) ==
    IF s = <<>> THEN <<>>
    ELSE InsertByOccurredAt(SortByOccurredAt(SubSeq(s, 1, Len(s) - 1)), s[Len(s)])

\* ----------------------------------------------------------------- indexes
\* The lookup matching only documents that were annotated with tags.
by_idempotencyKey_TaggedOnly(s, key) ==
    Filter(s, LAMBDA e : e.idempotencyKey = Some(key) /\ e.tags /= None)

\* .withIndex("by_idempotencyKey", q => q.eq("idempotencyKey", key))
by_idempotencyKey(s, key) ==
    Filter(s, LAMBDA e : e.idempotencyKey = Some(key))

\* The organization index read without its lower time bound.
by_organizationId_and_occurredAt_NoLowerBound(s, org, lo, hi) ==
    SortByOccurredAt(Filter(s, LAMBDA e :
        /\ e.organizationId = Some(org)
        /\ e.occurredAt <= hi))

\* .withIndex("by_organizationId_and_occurredAt", ...) in ascending order
by_organizationId_and_occurredAt(s, org, lo, hi) ==
    SortByOccurredAt(Filter(s, LAMBDA e :
        /\ e.organizationId = Some(org)
        /\ lo <= e.occurredAt
        /\ e.occurredAt <= hi))

\* .withIndex("by_action_and_occurredAt", ...) in ascending order
by_action_and_occurredAt(s, action, lo, hi) ==
    SortByOccurredAt(Filter(s, LAMBDA e :
        /\ e.action = action
        /\ lo <= e.occurredAt
        /\ e.occurredAt <= hi))

\* .withIndex("by_actor_and_occurredAt", ...) in ascending order
by_actor_and_occurredAt(s, actorType, actorId, lo, hi) ==
    SortByOccurredAt(Filter(s, LAMBDA e :
        /\ e.actor.type = actorType
        /\ e.actor.id = actorId
        /\ lo <= e.occurredAt
        /\ e.occurredAt <= hi))

\* ctx.db.get(id)
dbGet(s, id) ==
    LET hit == Filter(s, LAMBDA e : e._id = id)
    IN IF hit = <<>> THEN None ELSE Some(hit[1])

\* ctx.db.insert("auditEvents", fields): the document with a fresh _id
dbInsert(s, id, fields) ==
    Append(s, [_id |-> id] @@ fields)

\* ctx.db.delete(id)
dbDelete(s, id) == Filter(s, LAMBDA e : e._id /= id)

\* ---------------------------------------------------------------- handlers
\* log without the lookup of lines 62-73: every call inserts.
log_NoIdempotencyCheck(s, id, t, args) ==
    [store |-> dbInsert(s, id,
         [action |-> args.action,
          actor |-> args.actor,
          targets |-> args.targets,
          context |-> args.context,
          metadata |-> args.metadata,
          organizationId |-> args.organizationId,
          occurredAt |-> OrElse(args.occurredAt, t),
          idempotencyKey |-> args.idempotencyKey,
          result |-> Some(OrElse(args.result, "success")),
          error |-> args.error,
          tags |-> args.tags,
          version |-> Some(OrElse(args.version, DefaultVersion))]),
     nextId |-> id + 1,
     result |-> [eventId |-> id, created |-> TRUE]]

\* log overwriting the stored event when its key is already stored.
log_Upsert(s, id, t, args) ==
    LET existing == IF Truthy(args.idempotencyKey)
                    THEN by_idempotencyKey(s, args.idempotencyKey[1])
                    ELSE <<>>
        fields == [action |-> args.action,
                   actor |-> args.actor,
                   targets |-> args.targets,
                   context |-> args.context,
                   metadata |-> args.metadata,
                   organizationId |-> args.organizationId,
                   occurredAt |-> OrElse(args.occurredAt, t),
                   idempotencyKey |-> args.idempotencyKey,
                   result |-> Some(OrElse(args.result, "success")),
                   error |-> args.error,
                   tags |-> args.tags,
                   version |-> Some(OrElse(args.version, DefaultVersion))]
    IN IF Truthy(args.idempotencyKey) /\ existing /= <<>>
       THEN [store |-> [i \in 1..Len(s) |->
                           IF s[i]._id = existing[1]._id
                           THEN [_id |-> s[i]._id] @@ fields
                           ELSE s[i]],
             nextId |-> id,
             result |-> [eventId |-> existing[1]._id, created |-> FALSE]]
       ELSE [store |-> dbInsert(s, id, fields),
             nextId |-> id + 1,
             result |-> [eventId |-> id, created |-> TRUE]]

\* log: lib.ts 60-93.  s is the table, id the next free document id, t the
\* value of Date.now() in this transaction.
log(s, id, t, args) ==
    LET existing == IF Truthy(args.idempotencyKey)
                    THEN by_idempotencyKey(s, args.idempotencyKey[1])
                    ELSE <<>>
    IN IF Truthy(args.idempotencyKey) /\ existing /= <<>>
       THEN [store |-> s, nextId |-> id,
             result |-> [eventId |-> existing[1]._id, created |-> FALSE]]
       ELSE [store |-> dbInsert(s, id,
                 [action |-> args.action,
                  actor |-> args.actor,
                  targets |-> args.targets,
                  context |-> args.context,
                  metadata |-> args.metadata,
                  organizationId |-> args.organizationId,
                  occurredAt |-> OrElse(args.occurredAt, t),
                  idempotencyKey |-> args.idempotencyKey,
                  result |-> Some(OrElse(args.result, "success")),
                  error |-> args.error,
                  tags |-> args.tags,
                  version |-> Some(OrElse(args.version, DefaultVersion))]),
             nextId |-> id + 1,
             result |-> [eventId |-> id, created |-> TRUE]]

\* A lookup that never finds the key.
logLookup_Blind(s, args) == None

\* The lookup of log alone, lib.ts 62-73: the stored event carrying the key
\* of the call, when the key is truthy and an event carries it.
logLookup(s, args) ==
    LET existing == IF Truthy(args.idempotencyKey)
                    THEN by_idempotencyKey(s, args.idempotencyKey[1])
                    ELSE <<>>
    IN IF existing = <<>> THEN None ELSE Some(existing[1])

\* The insert of log alone, lib.ts 75-92
logInsert(s, id, t, args) ==
    [store |-> dbInsert(s, id,
         [action |-> args.action,
          actor |-> args.actor,
          targets |-> args.targets,
          context |-> args.context,
          metadata |-> args.metadata,
          organizationId |-> args.organizationId,
          occurredAt |-> OrElse(args.occurredAt, t),
          idempotencyKey |-> args.idempotencyKey,
          result |-> Some(OrElse(args.result, "success")),
          error |-> args.error,
          tags |-> args.tags,
          version |-> Some(OrElse(args.version, DefaultVersion))]),
     nextId |-> id + 1,
     result |-> [eventId |-> id, created |-> TRUE]]

\* The loop body without the lookup of lines 140-152.
logBatchStep_NoIdempotencyCheck(acc, t, event) ==
    [store |-> dbInsert(acc.store, acc.nextId,
         [action |-> event.action,
          actor |-> event.actor,
          targets |-> event.targets,
          context |-> event.context,
          metadata |-> event.metadata,
          organizationId |-> event.organizationId,
          occurredAt |-> OrElse(event.occurredAt, t),
          idempotencyKey |-> event.idempotencyKey,
          result |-> Some(OrElse(event.result, "success")),
          error |-> event.error,
          tags |-> event.tags,
          version |-> Some(OrElse(event.version, DefaultVersion))]),
     nextId |-> acc.nextId + 1,
     results |-> Append(acc.results, [eventId |-> acc.nextId, created |-> TRUE])]

\* The loop body storing result, version and occurredAt as supplied.
logBatchStep_NoDefaults(acc, t, event) ==
    LET existing == IF Truthy(event.idempotencyKey)
                    THEN by_idempotencyKey(acc.store, event.idempotencyKey[1])
                    ELSE <<>>
    IN IF Truthy(event.idempotencyKey) /\ existing /= <<>>
       THEN [acc EXCEPT !.results =
                 Append(@, [eventId |-> existing[1]._id, created |-> FALSE])]
       ELSE [store |-> dbInsert(acc.store, acc.nextId,
                 [action |-> event.action,
                  actor |-> event.actor,
                  targets |-> event.targets,
                  context |-> event.context,
                  metadata |-> event.metadata,
                  organizationId |-> event.organizationId,
                  occurredAt |-> OrElse(event.occurredAt, 0),
                  idempotencyKey |-> event.idempotencyKey,
                  result |-> event.result,
                  error |-> event.error,
                  tags |-> event.tags,
                  version |-> event.version]),
             nextId |-> acc.nextId + 1,
             results |-> Append(acc.results,
                 [eventId |-> acc.nextId, created |-> TRUE])]

\* One iteration of logBatch's loop, lib.ts 138-172: acc carries the table,
\* the next free id and the results pushed so far.
logBatchStep(acc, t, event) ==
    LET existing == IF Truthy(event.idempotencyKey)
                    THEN by_idempotencyKey(acc.store, event.idempotencyKey[1])
                    ELSE <<>>
    IN IF Truthy(event.idempotencyKey) /\ existing /= <<>>
       THEN [acc EXCEPT !.results =
                 Append(@, [eventId |-> existing[1]._id, created |-> FALSE])]
       ELSE [store |-> dbInsert(acc.store, acc.nextId,
                 [action |-> event.action,
                  actor |-> event.actor,
                  targets |-> event.targets,
                  context |-> event.context,
                  metadata |-> event.metadata,
                  organizationId |-> event.organizationId,
                  occurredAt |-> OrElse(event.occurredAt, t),
                  idempotencyKey |-> event.idempotencyKey,
                  result |-> Some(OrElse(event.result, "success")),
                  error |-> event.error,
                  tags |-> event.tags,
                  version |-> Some(OrElse(event.version, DefaultVersion))]),
             nextId |-> acc.nextId + 1,
             results |-> Append(acc.results,
                 [eventId |-> acc.nextId, created |-> TRUE])]

RECURSIVE logBatchLoop(_, _, _)
logBatchLoop(acc, t, events) ==
    IF events = <<>> THEN acc
    ELSE logBatchLoop(logBatchStep(acc, t, Head(events)), t, Tail(events))

\* logBatch committing the insert of its first element alone.
logBatch_FirstInsertOnly(s, id, t, events) ==
    LET out == logBatchLoop([store |-> s, nextId |-> id, results |-> <<>>], t, events)
        first == logBatchLoop([store |-> s, nextId |-> id, results |-> <<>>], t,
                              Take(events, 1))
    IN [store |-> first.store, nextId |-> out.nextId, result |-> out.results]

\* logBatch: lib.ts 135-175
logBatch(s, id, t, events) ==
    LET out == logBatchLoop([store |-> s, nextId |-> id, results |-> <<>>], t, events)
    IN [store |-> out.store, nextId |-> out.nextId, result |-> out.results]

\* get answering with the oldest document whatever the id.
get_Oldest(s, eventId) == IF s = <<>> THEN None ELSE Some(s[1])

\* get: lib.ts 190-193.  null is None.
get(s, eventId) == dbGet(s, eventId)

\* list: lib.ts 215-277.  args.cursor is accepted and never read.
\* list returning a cursor for every non-empty page
list_CursorOfAnyPage(s, t, args) ==
    LET limit == OrElse(args.limit, DefaultLimit)
        startTime == OrElse(args.startTime, 0)
        endTime == OrElse(args.endTime, t + OneDay)
        query ==
            IF Truthy(args.organizationId)
            THEN by_organizationId_and_occurredAt(
                     s, args.organizationId[1], startTime, endTime)
            ELSE IF Truthy(args.action)
            THEN by_action_and_occurredAt(s, args.action[1], startTime, endTime)
            ELSE IF Truthy(args.actorType) /\ Truthy(args.actorId)
            THEN by_actor_and_occurredAt(
                     s, args.actorType[1], args.actorId[1], startTime, endTime)
            ELSE s
        events == Take(Reverse(query), limit + 1)
        hasMore == Len(events) > limit
        resultEvents == IF hasMore THEN Take(events, limit) ELSE events
        nextCursor == IF Len(resultEvents) > 0
                      THEN Some(resultEvents[Len(resultEvents)]._id)
                      ELSE None
    IN [events |-> resultEvents, nextCursor |-> nextCursor, hasMore |-> hasMore]

\* list filtering by a lone actor argument
list_LoneActorFilter(s, t, args) ==
    LET limit == OrElse(args.limit, DefaultLimit)
        startTime == OrElse(args.startTime, 0)
        endTime == OrElse(args.endTime, t + OneDay)
        query ==
            IF Truthy(args.organizationId)
            THEN by_organizationId_and_occurredAt(
                     s, args.organizationId[1], startTime, endTime)
            ELSE IF Truthy(args.action)
            THEN by_action_and_occurredAt(s, args.action[1], startTime, endTime)
            ELSE IF Truthy(args.actorType) /\ Truthy(args.actorId)
            THEN by_actor_and_occurredAt(
                     s, args.actorType[1], args.actorId[1], startTime, endTime)
            ELSE IF Truthy(args.actorType)
            THEN Filter(s, LAMBDA e : e.actor.type = args.actorType[1])
            ELSE IF Truthy(args.actorId)
            THEN Filter(s, LAMBDA e : e.actor.id = args.actorId[1])
            ELSE s
        events == Take(Reverse(query), limit + 1)
        hasMore == Len(events) > limit
        resultEvents == IF hasMore THEN Take(events, limit) ELSE events
        nextCursor == IF hasMore /\ Len(resultEvents) > 0
                      THEN Some(resultEvents[Len(resultEvents)]._id)
                      ELSE None
    IN [events |-> resultEvents, nextCursor |-> nextCursor, hasMore |-> hasMore]

list(s, t, args) ==
    LET limit == OrElse(args.limit, DefaultLimit)
        startTime == OrElse(args.startTime, 0)
        endTime == OrElse(args.endTime, t + OneDay)
        query ==
            IF Truthy(args.organizationId)
            THEN by_organizationId_and_occurredAt(
                     s, args.organizationId[1], startTime, endTime)
            ELSE IF Truthy(args.action)
            THEN by_action_and_occurredAt(s, args.action[1], startTime, endTime)
            ELSE IF Truthy(args.actorType) /\ Truthy(args.actorId)
            THEN by_actor_and_occurredAt(
                     s, args.actorType[1], args.actorId[1], startTime, endTime)
            ELSE s
        events == Take(Reverse(query), limit + 1)
        hasMore == Len(events) > limit
        resultEvents == IF hasMore THEN Take(events, limit) ELSE events
        nextCursor == IF hasMore /\ Len(resultEvents) > 0
                      THEN Some(resultEvents[Len(resultEvents)]._id)
                      ELSE None
    IN [events |-> resultEvents, nextCursor |-> nextCursor, hasMore |-> hasMore]

\* listByActor returning the oldest events of the window first.
listByActor_Ascending(s, t, args) ==
    LET limit == OrElse(args.limit, DefaultLimit)
        startTime == OrElse(args.startTime, 0)
        endTime == OrElse(args.endTime, t + OneDay)
    IN Take(by_actor_and_occurredAt(
                s, args.actorType, args.actorId, startTime, endTime), limit)

\* listByActor: lib.ts 323-341
listByActor(s, t, args) ==
    LET limit == OrElse(args.limit, DefaultLimit)
        startTime == OrElse(args.startTime, 0)
        endTime == OrElse(args.endTime, t + OneDay)
    IN Take(Reverse(by_actor_and_occurredAt(
                s, args.actorType, args.actorId, startTime, endTime)), limit)

\* listByAction: lib.ts 356-378
listByAction(s, t, args) ==
    LET limit == OrElse(args.limit, DefaultLimit)
        startTime == OrElse(args.startTime, 0)
        endTime == OrElse(args.endTime, t + OneDay)
        events == Take(Reverse(by_action_and_occurredAt(
                      s, args.action, startTime, endTime)), limit * 2)
        filtered == IF Truthy(args.organizationId)
                    THEN Filter(events, LAMBDA e :
                             e.organizationId = args.organizationId)
                    ELSE events
    IN Take(filtered, limit)

\* The number of elements of a sequence that satisfy P
Count(s, P(_)) == Len(Filter(s, P))

\* getStats reporting the number of scanned documents as the total.
getStats_TotalOfScan(s, t, args) ==
    LET startTime == OrElse(args.startTime, t - ThirtyDays)
        endTime == OrElse(args.endTime, t)
        events == IF Truthy(args.organizationId)
                  THEN by_organizationId_and_occurredAt(
                           s, args.organizationId[1], startTime, endTime)
                  ELSE s
        filteredEvents ==
            IF Truthy(args.organizationId) THEN events
            ELSE Filter(events, LAMBDA e :
                     e.occurredAt >= startTime /\ e.occurredAt <= endTime)
        all == Range(filteredEvents)
    IN [totalEvents |-> Len(events),
        eventsByAction |->
            [a \in {e.action : e \in all} |->
                Len(Filter(filteredEvents, LAMBDA e : e.action = a))],
        eventsByActorType |->
            [a \in {e.actor.type : e \in all} |->
                Len(Filter(filteredEvents, LAMBDA e : e.actor.type = a))],
        eventsByResult |->
            [r \in {OrElse(e.result, "success") : e \in all} |->
                Len(Filter(filteredEvents, LAMBDA e : OrElse(e.result, "success") = r))]]

\* getStats: lib.ts 396-447.  A Record<string, number> is a function from
\* the keys it holds to their counts.
getStats(s, t, args) ==
    LET startTime == OrElse(args.startTime, t - ThirtyDays)
        endTime == OrElse(args.endTime, t)
        events == IF Truthy(args.organizationId)
                  THEN by_organizationId_and_occurredAt(
                           s, args.organizationId[1], startTime, endTime)
                  ELSE s
        filteredEvents ==
            IF Truthy(args.organizationId) THEN events
            ELSE Filter(events, LAMBDA e :
                     e.occurredAt >= startTime /\ e.occurredAt <= endTime)
        all == Range(filteredEvents)
    IN [totalEvents |-> Len(filteredEvents),
        eventsByAction |->
            [a \in {e.action : e \in all} |->
                Count(filteredEvents, LAMBDA e : e.action = a)],
        eventsByActorType |->
            [a \in {e.actor.type : e \in all} |->
                Count(filteredEvents, LAMBDA e : e.actor.type = a)],
        eventsByResult |->
            [r \in {OrElse(e.result, "success") : e \in all} |->
                Count(filteredEvents, LAMBDA e : OrElse(e.result, "success") = r)]]

RECURSIVE dbDeleteAll(_, _)
dbDeleteAll(s, toDelete) ==
    IF toDelete = <<>> THEN s
    ELSE dbDeleteAll(dbDelete(s, Head(toDelete)._id), Tail(toDelete))

\* deleteOldEvents: lib.ts 480-513
\* deleteOldEvents reporting hasMore from the qualifying events only
deleteOldEvents_HasMoreOfOld(s, args) ==
    LET batchSize == OrElse(args.batchSize, DefaultBatchSize)
        old == Filter(s, LAMBDA e :
                   /\ e.occurredAt < args.olderThan
                   /\ Truthy(args.organizationId)
                      => e.organizationId = args.organizationId)
        toDelete == Take(old, batchSize)
    IN [store |-> dbDeleteAll(s, toDelete),
        result |-> [deleted |-> Len(toDelete),
                    hasMore |-> Len(old) > batchSize]]

deleteOldEvents(s, args) ==
    LET batchSize == OrElse(args.batchSize, DefaultBatchSize)
        query ==
            IF Truthy(args.organizationId)
            THEN SortByOccurredAt(Filter(s, LAMBDA e :
                     /\ e.organizationId = args.organizationId
                     /\ e.occurredAt < args.olderThan))
            ELSE s
        events == Take(query, batchSize + 1)
        toDelete ==
            IF Truthy(args.organizationId)
            THEN Take(events, batchSize)
            ELSE Take(Filter(events, LAMBDA e : e.occurredAt < args.olderThan),
                      batchSize)
    IN [store |-> dbDeleteAll(s, toDelete),
        result |-> [deleted |-> Len(toDelete),
                    hasMore |-> Len(events) > batchSize]]

\* The spread with its operands exchanged: stored values win.
Spread_ExistingFirst(a, b) ==
    LET ra == OrElse(a, <<>>)
        rb == OrElse(b, <<>>)
    IN [k \in DOMAIN ra \cup DOMAIN rb |->
           IF k \in DOMAIN ra THEN ra[k] ELSE rb[k]]

\* { ...a, ...b } over optional records: the keys of either, b's values first
Spread(a, b) ==
    LET ra == OrElse(a, <<>>)
        rb == OrElse(b, <<>>)
    IN [k \in DOMAIN ra \cup DOMAIN rb |->
           IF k \in DOMAIN rb THEN rb[k] ELSE ra[k]]

\* updateEvent replacing the document instead of patching it: the optional
\* fields it does not set are dropped.
updateEvent_Replace(s, args) ==
    LET existing == dbGet(s, args.eventId)
        setMetadata == args.metadata /= None /\ existing /= None
        setTags == args.tags /= None
        replaced(e) ==
            [e EXCEPT
                !.metadata = IF setMetadata
                             THEN Some(Spread(existing[1].metadata, args.metadata))
                             ELSE None,
                !.tags = IF setTags THEN args.tags ELSE None,
                !.context = None,
                !.organizationId = None,
                !.idempotencyKey = None,
                !.result = None,
                !.error = None,
                !.version = None]
    IN IF ~(setMetadata \/ setTags) THEN [store |-> s, threw |-> FALSE]
       ELSE IF existing = None THEN [store |-> s, threw |-> TRUE]
       ELSE [store |-> [i \in 1..Len(s) |->
                           IF s[i]._id = args.eventId THEN replaced(s[i]) ELSE s[i]],
             threw |-> FALSE]

\* updateEvent: lib.ts 526-545.  ctx.db.patch of a missing document throws,
\* which aborts the transaction: threw is TRUE and the table is unchanged.
updateEvent(s, args) ==
    LET existing == dbGet(s, args.eventId)
        setMetadata == args.metadata /= None /\ existing /= None
        setTags == args.tags /= None
        patched(e) ==
            [e EXCEPT
                !.metadata = IF setMetadata
                             THEN Some(Spread(existing[1].metadata, args.metadata))
                             ELSE @,
                !.tags = IF setTags THEN args.tags ELSE @]
    IN IF ~(setMetadata \/ setTags) THEN [store |-> s, threw |-> FALSE]
       ELSE IF existing = None THEN [store |-> s, threw |-> TRUE]
       ELSE [store |-> [i \in 1..Len(s) |->
                           IF s[i]._id = args.eventId THEN patched(s[i]) ELSE s[i]],
             threw |-> FALSE]

\* ------------------------------------------------------------------- state
\* pager: a caller paging through list, feeding nextCursor forward.
\* retention: the scheduler re-invoking deleteOldEvents while hasMore.
\* issued: every (idempotencyKey, _id) pair an insert has ever written.
\* calls: the log calls in progress when the lookup and the insert of log
\* are not one transaction, one per caller.
NoPager == [active |-> FALSE]
NoRetention == [active |-> FALSE]
Callers == 1..MaxCallers
Idle == [pc |-> "idle"]

Init ==
    /\ store = <<>>
    /\ nextId = 1
    /\ now = 1
    /\ ret = [op |-> "none"]
    /\ pager = NoPager
    /\ retention = NoRetention
    /\ issued = {}
    /\ calls = [c \in Callers |-> Idle]

\* Date.now() in a transaction: not before the last value read.
Clock == now..MaxTime

\* The (key, id) pairs among the documents of s2 that are not in s1
NewKeys(s1, s2) ==
    {[key |-> e.idempotencyKey[1], id |-> e._id] :
        e \in {d \in Range(s2) :
                  /\ d._id \notin Ids(s1)
                  /\ d.idempotencyKey \notin {None, Some("")}}}

\* ----------------------------------------------------------------- actions
Log(args) ==
    \E t \in Clock :
        LET out == log(store, nextId, t, args)
        IN /\ store' = out.store
           /\ nextId' = out.nextId
           /\ now' = t
           /\ ret' = [op |-> "log", args |-> args, result |-> out.result]
           /\ issued' = issued \cup NewKeys(store, out.store)
           /\ UNCHANGED <<pager, retention, calls>>

LogBatch(events) ==
    \E t \in Clock :
        LET out == logBatch(store, nextId, t, events)
        IN /\ store' = out.store
           /\ nextId' = out.nextId
           /\ now' = t
           /\ ret' = [op |-> "logBatch", args |-> events, result |-> out.result]
           /\ issued' = issued \cup NewKeys(store, out.store)
           /\ UNCHANGED <<pager, retention, calls>>

Get(eventId) ==
    /\ ret' = [op |-> "get", args |-> eventId, result |-> get(store, eventId)]
    /\ UNCHANGED <<store, nextId, now, pager, retention, issued, calls>>

List(args) ==
    \E t \in Clock :
        /\ now' = t
        /\ ret' = [op |-> "list", args |-> args, result |-> list(store, t, args)]
        /\ UNCHANGED <<store, nextId, pager, retention, issued, calls>>

GetStats(args) ==
    \E t \in Clock :
        /\ now' = t
        /\ ret' = [op |-> "getStats", args |-> args,
                   result |-> getStats(store, t, args)]
        /\ UNCHANGED <<store, nextId, pager, retention, issued, calls>>

ListByActor(args) ==
    \E t \in Clock :
        /\ now' = t
        /\ ret' = [op |-> "listByActor", args |-> args,
                   result |-> listByActor(store, t, args)]
        /\ UNCHANGED <<store, nextId, pager, retention, issued, calls>>

ListByAction(args) ==
    \E t \in Clock :
        /\ now' = t
        /\ ret' = [op |-> "listByAction", args |-> args,
                   result |-> listByAction(store, t, args)]
        /\ UNCHANGED <<store, nextId, pager, retention, issued, calls>>

DeleteOldEvents(args) ==
    LET out == deleteOldEvents(store, args)
    IN /\ store' = out.store
       /\ ret' = [op |-> "deleteOldEvents", args |-> args, result |-> out.result]
       /\ UNCHANGED <<nextId, now, pager, retention, issued, calls>>

UpdateEvent(args) ==
    LET out == updateEvent(store, args)
    IN /\ store' = out.store
       /\ ret' = [op |-> "updateEvent", args |-> args, threw |-> out.threw]
       /\ UNCHANGED <<nextId, now, pager, retention, issued, calls>>

\* ------------------------------------------------------------------ inputs
BaseEvent ==
    [action |-> "user.signed_in",
     actor |-> [type |-> "user", id |-> "u1"],
     targets |-> <<>>,
     context |-> None,
     metadata |-> None,
     organizationId |-> None,
     occurredAt |-> None,
     idempotencyKey |-> None,
     result |-> None,
     error |-> None,
     tags |-> None,
     version |-> None]

EventIds == 1..MaxId

\* Writers that retry with idempotency keys, an annotator, the retention
\* job and a reader
WriterEvents ==
    {[BaseEvent EXCEPT !.idempotencyKey = k, !.occurredAt = o] :
        k \in {Some(""), Some("k1")},
        o \in {None, Some(0)}}

WriterBatches ==
    {<<e>> : e \in {w \in WriterEvents : w.occurredAt = None}}
    \cup {<<e, f>> : e, f \in {w \in WriterEvents : w.occurredAt = None}}

Updates ==
    {[eventId |-> i,
      metadata |-> Some([exported |-> TRUE]),
      tags |-> Some(<<"exported">>)] : i \in EventIds}

Retentions ==
    {[olderThan |-> o, organizationId |-> None, batchSize |-> b] :
        o \in {1, MaxTime}, b \in {None, Some(1)}}

\* The outcome of a write stays within the bounds of the model.
Fits(out, cap) == Len(out.store) <= cap /\ out.nextId <= MaxId + 1

SpecLog ==
    \E args \in WriterEvents :
        Fits(log(store, nextId, now, args), MaxEvents) /\ Log(args)

SpecLogBatch ==
    \E events \in WriterBatches :
        Fits(logBatch(store, nextId, now, events), MaxEvents) /\ LogBatch(events)

SpecGet == \E eventId \in EventIds : Get(eventId)
SpecUpdateEvent == \E args \in Updates : UpdateEvent(args)
SpecDeleteOldEvents == \E args \in Retentions : DeleteOldEvents(args)

Next ==
    \/ SpecLog
    \/ SpecLogBatch
    \/ SpecGet
    \/ SpecUpdateEvent
    \/ SpecDeleteOldEvents

Spec == Init /\ [][Next]_vars

\* Retrying writers alone with the retention job
KeyedEvents ==
    {[BaseEvent EXCEPT !.idempotencyKey = k, !.occurredAt = o] :
        k \in {Some(""), Some("k1"), Some("k2")},
        o \in {None, Some(0)}}

KeyedBatches ==
    {<<e>> : e \in {w \in KeyedEvents : w.occurredAt = None}}
    \cup {<<e, f>> : e, f \in {w \in KeyedEvents : w.occurredAt = None}}

IdemLog ==
    \E args \in KeyedEvents :
        Fits(log(store, nextId, now, args), MaxEvents) /\ Log(args)

IdemLogBatch ==
    \E events \in KeyedBatches :
        Fits(logBatch(store, nextId, now, events), MaxEvents) /\ LogBatch(events)

IdemDeleteOldEvents == \E args \in Retentions : DeleteOldEvents(args)

NextIdem ==
    \/ IdemLog
    \/ IdemLogBatch
    \/ IdemDeleteOldEvents

SpecIdem == Init /\ [][NextIdem]_vars

\* ======================================================= idempotent writes
\* The number of stored events carrying key
KeyCount(s, key) ==
    Cardinality({i \in 1..Len(s) : s[i].idempotencyKey = Some(key)})

\* C1: two successive log calls with the same event, whose idempotencyKey K
\* is not empty, return the same eventId, the second with created = FALSE,
\* and leave exactly one stored event carrying K; the first of them, made
\* while no stored event carries K, returns created = TRUE.
C1_LogTwice ==
    [][/\ (/\ ret'.op = "log"
           /\ Truthy(ret'.args.idempotencyKey)
           /\ KeyCount(store, ret'.args.idempotencyKey[1]) = 0)
          => /\ ret'.result.created
             /\ KeyCount(store', ret'.args.idempotencyKey[1]) = 1
       /\ (/\ ret.op = "log"
           /\ ret'.op = "log"
           /\ ret'.args = ret.args
           /\ Truthy(ret.args.idempotencyKey))
          => /\ ret'.result.eventId = ret.result.eventId
             /\ ~ret'.result.created
             /\ KeyCount(store', ret.args.idempotencyKey[1]) = 1]_vars

\* The second call has answered with the id the first one created.
C1_Witness ==
    /\ ret.op = "log"
    /\ Truthy(ret.args.idempotencyKey)
    /\ ~ret.result.created
    /\ ret.result.eventId \in Ids(store)
    /\ KeyCount(store, ret.args.idempotencyKey[1]) = 1

\* C2: under every interleaving of log, logBatch, updateEvent and
\* deleteOldEvents transactions, no two stored events carry the same
\* non-empty idempotencyKey, and a log call with such a key returns the id
\* of the one stored event that carries it.
C2_UniqueKey ==
    /\ \A i, j \in 1..Len(store) :
           (Truthy(store[i].idempotencyKey)
            /\ store[i].idempotencyKey = store[j].idempotencyKey) => i = j
    /\ (ret.op = "log" /\ Truthy(ret.args.idempotencyKey))
       => {e._id : e \in {d \in Range(store) :
                             d.idempotencyKey = ret.args.idempotencyKey}}
          = {ret.result.eventId}

\* Two events are stored, one of them keyed, and a log with that key has
\* just been answered with the stored event.
C2_Witness ==
    /\ Len(store) = 2
    /\ ret.op = "log"
    /\ Truthy(ret.args.idempotencyKey)
    /\ ~ret.result.created
    /\ \E i \in 1..Len(store) : store[i].tags /= None

\* C8 as stated: over the whole history no idempotencyKey is ever written
\* to two event ids.
C8_OneIdEver ==
    \A p, q \in issued : p.key = q.key => p.id = q.id

\* C8, amended: an insert with key K happens only while no stored event
\* carries K, one insert per key in a call, always under an id never issued
\* before; a key whose event was deleted is written again under a new id.
C8_OneIdWhileStored ==
    [][\A p \in issued' \ issued :
           /\ KeyCount(store, p.key) = 0
           /\ \A q \in issued : q.id /= p.id
           /\ \A q \in issued' \ issued : q.key = p.key => q.id = p.id]_vars

\* A key has been written a second time after its first event was deleted.
C8_Witness ==
    \E p, q \in issued :
        /\ p.key = q.key
        /\ p.id < q.id
        /\ p.id \notin Ids(store)
        /\ q.id \in Ids(store)

\* C9: get(eventId) returns the stored event with that id and null when
\* none is stored (also after its deletion); that event holds the field
\* values the creating log or logBatch call wrote, and they change only by
\* an updateEvent of that id, which touches metadata and tags alone.
GetCorrect ==
    ret.op = "get" =>
        IF ret.args \in Ids(store)
        THEN \E i \in 1..Len(store) :
                 /\ store[i]._id = ret.args
                 /\ ret.result = Some(store[i])
                 /\ \A j \in 1..Len(store) : store[j]._id = ret.args => j = i
        ELSE ret.result = None

Written(e, args, t) ==
    /\ e.action = args.action
    /\ e.actor = args.actor
    /\ e.targets = args.targets
    /\ e.context = args.context
    /\ e.metadata = args.metadata
    /\ e.organizationId = args.organizationId
    /\ e.occurredAt = (IF args.occurredAt = None THEN t ELSE args.occurredAt[1])
    /\ e.idempotencyKey = args.idempotencyKey
    /\ e.result = (IF args.result = None THEN Some("success") ELSE args.result)
    /\ e.error = args.error
    /\ e.tags = args.tags
    /\ e.version = (IF args.version = None THEN Some(1) ELSE args.version)

WrittenByLog ==
    /\ (ret'.op = "log" /\ ret'.result.created)
       => \E e \in Range(store') :
              e._id = ret'.result.eventId /\ Written(e, ret'.args, now')
    /\ ret'.op = "logBatch"
       => \A i \in 1..Len(ret'.result) :
              ret'.result[i].created
              => \E e \in Range(store') :
                     e._id = ret'.result[i].eventId /\ Written(e, ret'.args[i], now')

AmendedOnlyByUpdate ==
    \A e \in Range(store), f \in Range(store') :
        (e._id = f._id /\ e /= f)
        => /\ ret'.op = "updateEvent"
           /\ ret'.args.eventId = e._id
           /\ [f EXCEPT !.metadata = e.metadata, !.tags = e.tags] = e

C9_Get == []GetCorrect /\ [][WrittenByLog /\ AmendedOnlyByUpdate]_vars

\* get has returned an event that updateEvent amended after its creation.
C9_Witness ==
    /\ ret.op = "get"
    /\ ret.result /= None
    /\ ret.result[1]._id = ret.args
    /\ ret.result[1].tags /= None
    /\ Len(store) = 2

\* C10: logBatch(events) returns and stores what calling log on each
\* element in input order within the same transaction would: one result
\* per element, in input order; a key that occurs twice in the batch and is
\* not stored yet is created by its first occurrence, and the second
\* returns created = FALSE with the first one's eventId.
RECURSIVE LogEach(_, _, _, _, _)
LogEach(s, id, t, events, results) ==
    IF events = <<>> THEN [store |-> s, nextId |-> id, result |-> results]
    ELSE LET one == log(s, id, t, Head(events))
         IN LogEach(one.store, one.nextId, t, Tail(events),
                    Append(results, one.result))

C10_BatchIsSequentialLog ==
    [][ret'.op = "logBatch" =>
          LET each == LogEach(store, nextId, now', ret'.args, <<>>)
          IN /\ Len(ret'.result) = Len(ret'.args)
             /\ ret'.result = each.result
             /\ store' = each.store
             /\ nextId' = each.nextId
             /\ \A i, j \in 1..Len(ret'.args) :
                    (/\ i < j
                     /\ Truthy(ret'.args[i].idempotencyKey)
                     /\ ret'.args[i].idempotencyKey = ret'.args[j].idempotencyKey
                     /\ \A h \in 1..(i - 1) :
                            ret'.args[h].idempotencyKey /= ret'.args[i].idempotencyKey
                     /\ KeyCount(store, ret'.args[i].idempotencyKey[1]) = 0)
                    => /\ ret'.result[i].created
                       /\ ~ret'.result[j].created
                       /\ ret'.result[j].eventId = ret'.result[i].eventId]_vars

\* A batch holding one key twice has stored its first occurrence only.
C10_Witness ==
    /\ ret.op = "logBatch"
    /\ Len(ret.args) = 2
    /\ Truthy(ret.args[1].idempotencyKey)
    /\ ret.args[1].idempotencyKey = ret.args[2].idempotencyKey
    /\ ret.result[1].created
    /\ ~ret.result[2].created
    /\ ret.result[2].eventId = ret.result[1].eventId

\* ================================================================= listing
\* Tenants logging events, in any order of occurredAt, and readers listing
OrgIds == {Some(""), Some("A"), Some("B")}

TenantEvents ==
    {[BaseEvent EXCEPT !.organizationId = g, !.occurredAt = o] :
        g \in {None} \cup OrgIds,
        o \in {None, Some(0), Some(2)}}

NoFilters ==
    [organizationId |-> None,
     action |-> None,
     actorId |-> None,
     actorType |-> None,
     startTime |-> None,
     endTime |-> None,
     limit |-> None,
     cursor |-> None]

Listings ==
    {[NoFilters EXCEPT !.organizationId = g, !.startTime = b, !.limit = l] :
        g \in {None} \cup OrgIds,
        b \in {None, Some(1)},
        l \in {None, Some(1)}}

ListLog ==
    \E args \in TenantEvents :
        Fits(log(store, nextId, now, args), MaxEvents) /\ Log(args)
ListList == \E args \in Listings : List(args)

NextList ==
    \/ ListLog
    \/ ListList

SpecList == Init /\ [][NextList]_vars

\* C3: when the stored events have pairwise distinct occurredAt values,
\* whatever the order they were logged in, list called with no filters
\* returns them in strictly descending occurredAt order.
C3_ListDescendingOccurredAt ==
    (/\ ret.op = "list"
     /\ ret.args = NoFilters
     /\ \A i, j \in 1..Len(store) :
            store[i].occurredAt = store[j].occurredAt => i = j)
    => /\ Ids(ret.result.events) = Ids(store)
       /\ \A i, j \in 1..Len(ret.result.events) :
              i < j => ret.result.events[i].occurredAt
                       > ret.result.events[j].occurredAt

\* C4: every event that list({organizationId: B}) returns has
\* organizationId B: no event of another organization, and no event stored
\* without one, is in its result.
C4_TenantIsolation ==
    (ret.op = "list" /\ ret.args.organizationId /= None)
    => \A i \in 1..Len(ret.result.events) :
           ret.result.events[i].organizationId = ret.args.organizationId

\* ============================================================== pagination
\* useAuditEvents: the first call carries no cursor; loadMore passes the
\* previous result's nextCursor.  seen collects the ids of the pages so far,
\* dup records that a page returned an id an earlier page had returned, and
\* calls counts the calls modulo 2.
StartPaging(args) ==
    \E t \in Clock :
        LET r == list(store, t, [args EXCEPT !.cursor = None])
        IN /\ ~pager.active
           /\ now' = t
           /\ ret' = [op |-> "list", args |-> [args EXCEPT !.cursor = None],
                      result |-> r]
           /\ pager' = [active |-> TRUE,
                        args |-> args,
                        seen |-> Ids(r.events),
                        dup |-> FALSE,
                        hasMore |-> r.hasMore,
                        cursor |-> r.nextCursor,
                        calls |-> 1]
           /\ UNCHANGED <<store, nextId, retention, issued, calls>>

LoadMore ==
    \E t \in Clock :
        LET args == [pager.args EXCEPT !.cursor = pager.cursor]
            r == list(store, t, args)
        IN /\ pager.active
           /\ pager.hasMore
           /\ pager.cursor /= None
           /\ now' = t
           /\ ret' = [op |-> "list", args |-> args, result |-> r]
           /\ pager' = [pager EXCEPT
                          !.seen = @ \cup Ids(r.events),
                          !.dup = @ \/ (Ids(r.events) \cap pager.seen /= {}),
                          !.hasMore = r.hasMore,
                          !.cursor = r.nextCursor,
                          !.calls = (@ + 1) % 2]
           /\ UNCHANGED <<store, nextId, retention, issued, calls>>

PagedEvents ==
    {[BaseEvent EXCEPT !.organizationId = g, !.occurredAt = o] :
        g \in {None, Some("A")},
        o \in {Some(0), Some(2)}}

Pagings ==
    {[NoFilters EXCEPT !.organizationId = g, !.limit = Some(l)] :
        g \in {None, Some("A")},
        l \in 1..MaxEvents}

\* The store does not change while a caller pages through it.
PageLog ==
    /\ ~pager.active
    /\ \E args \in PagedEvents :
           Fits(log(store, nextId, now, args), MaxEvents) /\ Log(args)
PageStart == \E args \in Pagings : StartPaging(args)

NextPage ==
    \/ PageLog
    \/ PageStart
    \/ LoadMore

\* A caller that is told hasMore keeps loading.
SpecPage == Init /\ [][NextPage]_vars /\ WF_vars(LoadMore)

\* The ids of the stored events that match the filters of a listing
MatchingIds(args) ==
    {e._id : e \in {d \in Range(store) :
        args.organizationId = None \/ d.organizationId = args.organizationId}}

\* C5: paging through an unchanging store with limit L >= 1, feeding each
\* nextCursor forward, some call eventually returns hasMore = FALSE; no page
\* repeats an id of an earlier page, and by then the pages together hold
\* exactly the events that match the filters.
C5_PaginationExhaustive ==
    /\ [](pager.active => ~pager.dup)
    /\ []((pager.active /\ ~pager.hasMore)
          => pager.seen = MatchingIds(pager.args))
    /\ (pager.active ~> (pager.active /\ ~pager.hasMore))

\* ============================================================== statistics
StatEvents ==
    {[BaseEvent EXCEPT !.action = a[1], !.actor = [type |-> a[2], id |-> "x1"],
                       !.result = r, !.organizationId = g, !.occurredAt = Some(o)] :
        a \in {<<"user.signed_in", "user">>, <<"job.finished", "system">>},
        r \in {None, Some("failure")},
        g \in {None, Some("A")},
        o \in {0, 2}}

StatQueries ==
    {[organizationId |-> g, startTime |-> b, endTime |-> e] :
        g \in {None, Some(""), Some("A")},
        b \in {None, Some(1)},
        e \in {None, Some(1)}}

StatsLog ==
    \E args \in StatEvents :
        Fits(log(store, nextId, now, args), MaxEvents) /\ Log(args)
StatsGetStats == \E args \in StatQueries : GetStats(args)

NextStats ==
    \/ StatsLog
    \/ StatsGetStats

SpecStats == Init /\ [][NextStats]_vars

\* The sum of the values of a Record<string, number>
RECURSIVE SumOver(_, _)
SumOver(f, keys) ==
    IF keys = {} THEN 0
    ELSE LET k == CHOOSE x \in keys : TRUE
         IN f[k] + SumOver(f, keys \ {k})

SumValues(f) == SumOver(f, DOMAIN f)

\* C6: for every store, organization argument and window, the values of
\* eventsByResult, of eventsByAction and of eventsByActorType that getStats
\* returns each sum to totalEvents.
C6_StatsSumToTotal ==
    ret.op = "getStats" =>
        /\ SumValues(ret.result.eventsByResult) = ret.result.totalEvents
        /\ SumValues(ret.result.eventsByAction) = ret.result.totalEvents
        /\ SumValues(ret.result.eventsByActorType) = ret.result.totalEvents

\* Statistics over a window that holds one of two stored events, and over
\* one that holds two events of different action, actor type and result.
C6_Witness ==
    /\ ret.op = "getStats"
    /\ Len(store) = 2
    /\ ret.result.totalEvents = 2
    /\ Cardinality(DOMAIN ret.result.eventsByResult) = 2
    /\ Cardinality(DOMAIN ret.result.eventsByAction) = 2
    /\ Cardinality(DOMAIN ret.result.eventsByActorType) = 2

\* =============================================================== retention
\* The scheduler of the retention job: it calls deleteOldEvents and calls it
\* again with the same arguments for as long as the call returns hasMore.
\* kept holds the documents stored before the first call whose occurredAt is
\* not below the cutoff; calls counts the calls modulo 2.
StartRetention(args) ==
    LET out == deleteOldEvents(store, args)
    IN /\ ~retention.active
       /\ store' = out.store
       /\ ret' = [op |-> "deleteOldEvents", args |-> args, result |-> out.result]
       /\ retention' = [active |-> TRUE,
                        args |-> args,
                        kept |-> {e \in Range(store) :
                                     e.occurredAt >= args.olderThan},
                        hasMore |-> out.result.hasMore,
                        calls |-> 1]
       /\ UNCHANGED <<nextId, now, pager, issued, calls>>

RepeatRetention ==
    LET out == deleteOldEvents(store, retention.args)
    IN /\ retention.active
       /\ retention.hasMore
       /\ store' = out.store
       /\ ret' = [op |-> "deleteOldEvents", args |-> retention.args,
                  result |-> out.result]
       /\ retention' = [retention EXCEPT
                          !.hasMore = out.result.hasMore,
                          !.calls = (@ + 1) % 2]
       /\ UNCHANGED <<nextId, now, pager, issued, calls>>

RetainedEvents ==
    {[BaseEvent EXCEPT !.occurredAt = Some(o)] : o \in {0, 2}}

UnscopedRetentions ==
    {[olderThan |-> 1, organizationId |-> None, batchSize |-> Some(b)] :
        b \in 1..(MaxRetained - 1)}

\* No writes run while the job is in progress.
RetentionLog ==
    /\ ~retention.active
    /\ \E args \in RetainedEvents :
           Fits(log(store, nextId, now, args), MaxRetained) /\ Log(args)

RetentionStart == \E args \in UnscopedRetentions : StartRetention(args)

NextRetention ==
    \/ RetentionLog
    \/ RetentionStart
    \/ RepeatRetention

\* The scheduler keeps re-invoking the job while it reports hasMore.
SpecRetention == Init /\ [][NextRetention]_vars /\ WF_vars(RepeatRetention)

\* C7: with no concurrent writes, repeating deleteOldEvents(olderThan = T,
\* batchSize = B) without organizationId eventually returns hasMore = FALSE,
\* and then no stored event has occurredAt < T while every event with
\* occurredAt >= T stored before the first call is still stored, unchanged.
C7_RetentionComplete ==
    /\ []((retention.active /\ ~retention.hasMore)
          => /\ \A e \in Range(store) : e.occurredAt >= retention.args.olderThan
             /\ retention.kept \subseteq Range(store))
    /\ (retention.active ~> (retention.active /\ ~retention.hasMore))

\* ================================================================== writes
\* The argument validators of log and logBatch, lib.ts 35-55 and 111-133
\* over schema.ts 7-12: a call whose arguments fail them throws before its
\* handler runs.
ActorTypes == {"user", "system", "api_key", "service"}
Results == {"success", "failure", "pending"}

ValidArgs(args) ==
    /\ args.actor.type \in ActorTypes
    /\ args.result \in {None} \cup {Some(r) : r \in Results}

LogCall(args) ==
    \/ ValidArgs(args) /\ Log(args)
    \/ /\ ~ValidArgs(args)
       /\ ret' = [op |-> "log", args |-> args, threw |-> TRUE]
       /\ UNCHANGED <<store, nextId, now, pager, retention, issued, calls>>

LogBatchCall(events) ==
    \/ (\A i \in 1..Len(events) : ValidArgs(events[i])) /\ LogBatch(events)
    \/ /\ \E i \in 1..Len(events) : ~ValidArgs(events[i])
       /\ ret' = [op |-> "logBatch", args |-> events, threw |-> TRUE]
       /\ UNCHANGED <<store, nextId, now, pager, retention, issued, calls>>

\* The call was answered with an exception.
Rejected(r) == "threw" \in DOMAIN r

\* Writers that supply or omit result, version and occurredAt, one of them
\* sending a result outside the validator's literals; a reader and the
\* retention job run between their calls.
WriteEvents ==
    {[BaseEvent EXCEPT !.idempotencyKey = k, !.result = d[1],
                       !.version = d[2], !.occurredAt = d[3]] :
        k \in {None, Some("k1")},
        d \in {<<None, None, None>>,
               <<Some("pending"), Some(2), Some(0)>>,
               <<Some("failure"), None, Some(0)>>,
               <<Some("refused"), None, None>>}}

WriteBatches ==
    {<<e>> : e \in WriteEvents}
    \cup {<<e, f>> : e, f \in {w \in WriteEvents : w.occurredAt = None}}
    \cup {<<e, f>> : e, f \in {w \in WriteEvents : w.idempotencyKey = None}}

WriteLog ==
    \E args \in WriteEvents :
        Fits(log(store, nextId, now, args), MaxEvents) /\ LogCall(args)

WriteLogBatch ==
    \E events \in WriteBatches :
        Fits(logBatch(store, nextId, now, events), MaxEvents) /\ LogBatchCall(events)

WriteGet == \E eventId \in EventIds : Get(eventId)

WriteDeleteOldEvents ==
    DeleteOldEvents([olderThan |-> 1, organizationId |-> None, batchSize |-> None])

NextWrite ==
    \/ WriteLog
    \/ WriteLogBatch
    \/ WriteGet
    \/ WriteDeleteOldEvents

SpecWrite == Init /\ [][NextWrite]_vars

\* The ids of the events a batch reports as created
CreatedIds(results) ==
    {results[i].eventId : i \in {j \in 1..Len(results) : results[j].created}}

\* C11: a logBatch call takes the store in one step from holding none of
\* the events it creates to holding all of them, behind the events stored
\* before, which it leaves as they are; every other call is a step before
\* or after it, so none sees a part of the batch.  A batch that aborts
\* leaves the store as it was.
C11_BatchAllOrNothing ==
    [][ret'.op = "logBatch" =>
          IF Rejected(ret') THEN store' = store /\ nextId' = nextId
          ELSE LET new == CreatedIds(ret'.result)
               IN /\ new \cap Ids(store) = {}
                  /\ Ids(store') = Ids(store) \cup new
                  /\ SubSeq(store', 1, Len(store)) = store
                  /\ Len(store') = Len(store) + Cardinality(new)]_vars

\* A batch of two has stored both of its events.
C11_Witness ==
    /\ ret.op = "logBatch"
    /\ ~Rejected(ret)
    /\ Len(ret.args) = 2
    /\ Cardinality(CreatedIds(ret.result)) = 2
    /\ CreatedIds(ret.result) \subseteq Ids(store)

\* The stored event with this id (there is one)
StoredEvent(s, id) == CHOOSE e \in Range(s) : e._id = id

\* The supplied value of a field, or its default
Defaulted(e, args, t) ==
    /\ e.result = Some(IF args.result = None THEN "success" ELSE args.result[1])
    /\ e.version = Some(IF args.version = None THEN 1 ELSE args.version[1])
    /\ e.occurredAt = (IF args.occurredAt = None THEN t ELSE args.occurredAt[1])

\* C14: an event created by log or logBatch is stored with the supplied
\* result, version and occurredAt, and with "success", 1 and the ingestion
\* time for those omitted; every stored event has a result among success,
\* failure and pending, and a version.
C14_Defaults ==
    /\ [](\A e \in Range(store) :
              /\ e.result /= None
              /\ e.result[1] \in {"success", "failure", "pending"}
              /\ e.version /= None)
    /\ [][/\ (ret'.op = "log" /\ ~Rejected(ret') /\ ret'.result.created)
             => /\ ret'.result.eventId \in Ids(store')
                /\ Defaulted(StoredEvent(store', ret'.result.eventId),
                             ret'.args, now')
          /\ (ret'.op = "logBatch" /\ ~Rejected(ret'))
             => \A i \in 1..Len(ret'.result) :
                    ret'.result[i].created
                    => /\ ret'.result[i].eventId \in Ids(store')
                       /\ Defaulted(StoredEvent(store', ret'.result[i].eventId),
                                    ret'.args[i], now')]_vars

\* A batch has stored one event with every default and one with none.
C14_Witness ==
    /\ ret.op = "logBatch"
    /\ ~Rejected(ret)
    /\ Len(store) = 2
    /\ \E e, f \in Range(store) :
           /\ e.result = Some("success") /\ e.version = Some(1) /\ e.occurredAt = now
           /\ f.result = Some("pending") /\ f.version = Some(2) /\ f.occurredAt = 0

\* C12: across log, logBatch, updateEvent and deleteOldEvents calls, an
\* event that stays stored keeps its action, occurredAt, actor, targets,
\* context, organizationId, idempotencyKey, result, error and version; its
\* metadata or tags differ after a step only when the step is an
\* updateEvent of that event.
C12_ImmutableFields ==
    [][\A i \in 1..Len(store), j \in 1..Len(store') :
           store[i]._id = store'[j]._id
           => /\ store'[j].action = store[i].action
              /\ store'[j].occurredAt = store[i].occurredAt
              /\ store'[j].actor = store[i].actor
              /\ store'[j].targets = store[i].targets
              /\ store'[j].context = store[i].context
              /\ store'[j].organizationId = store[i].organizationId
              /\ store'[j].idempotencyKey = store[i].idempotencyKey
              /\ store'[j].result = store[i].result
              /\ store'[j].error = store[i].error
              /\ store'[j].version = store[i].version
              /\ (store'[j].metadata /= store[i].metadata
                  \/ store'[j].tags /= store[i].tags)
                 => /\ ret'.op = "updateEvent"
                    /\ ret'.args.eventId = store[i]._id]_vars

\* An event that was annotated is still stored, with its key, after a later
\* event was logged behind it.
C12_Witness ==
    /\ Len(store) = 2
    /\ store[1].tags /= None
    /\ store[1].metadata /= None
    /\ Truthy(store[1].idempotencyKey)
    /\ ret.op = "log"
    /\ ret.result.created
    /\ ret.result.eventId = store[2]._id

\* C13: a log call whose non-empty idempotencyKey a stored event carries
\* leaves the store as it is, whatever its payload, and returns that
\* event's id with created = FALSE; a logBatch element with such a key
\* returns the same and leaves the event carrying the key as it is, and a
\* batch of such elements alone leaves the store as it is.
C13_DuplicateWritesNothing ==
    [][/\ (/\ ret'.op = "log"
           /\ Truthy(ret'.args.idempotencyKey)
           /\ KeyCount(store, ret'.args.idempotencyKey[1]) > 0)
          => /\ store' = store
             /\ nextId' = nextId
             /\ ~ret'.result.created
             /\ \E e \in Range(store) :
                    /\ e.idempotencyKey = ret'.args.idempotencyKey
                    /\ e._id = ret'.result.eventId
       /\ ret'.op = "logBatch"
          => LET stored(i) ==
                     /\ Truthy(ret'.args[i].idempotencyKey)
                     /\ KeyCount(store, ret'.args[i].idempotencyKey[1]) > 0
             IN /\ \A i \in 1..Len(ret'.args) :
                       stored(i)
                       => /\ ~ret'.result[i].created
                          /\ \E e \in Range(store) :
                                 /\ e.idempotencyKey = ret'.args[i].idempotencyKey
                                 /\ e._id = ret'.result[i].eventId
                                 /\ e \in Range(store')
                          /\ KeyCount(store', ret'.args[i].idempotencyKey[1])
                             = KeyCount(store, ret'.args[i].idempotencyKey[1])
                /\ (\A i \in 1..Len(ret'.args) : stored(i))
                   => store' = store /\ nextId' = nextId]_vars

\* A log whose payload differs from the stored event of its key (another
\* occurredAt) was answered with that event, which is as it was.
C13_Witness ==
    /\ ret.op = "log"
    /\ Truthy(ret.args.idempotencyKey)
    /\ ~ret.result.created
    /\ ret.args.occurredAt = Some(0)
    /\ \E e \in Range(store) :
           /\ e._id = ret.result.eventId
           /\ e.idempotencyKey = ret.args.idempotencyKey
           /\ e.occurredAt /= 0

\* ============================================================ page of list
\* The stored events that the filters of a list call select: those of the
\* supplied organization, or else action, or else actor, that lie within
\* the time bounds.
ListMatches(s, t, args) ==
    LET startTime == IF args.startTime = None THEN 0 ELSE args.startTime[1]
        endTime == IF args.endTime = None THEN t + OneDay ELSE args.endTime[1]
    IN {e \in Range(s) :
           /\ startTime <= e.occurredAt
           /\ e.occurredAt <= endTime
           /\ IF args.organizationId /= None
              THEN e.organizationId = args.organizationId
              ELSE IF args.action /= None
              THEN e.action = args.action[1]
              ELSE IF args.actorType /= None /\ args.actorId /= None
              THEN e.actor.type = args.actorType[1] /\ e.actor.id = args.actorId[1]
              ELSE TRUE}

\* C15: list with limit L returns at most L events; hasMore is TRUE exactly
\* when more than L stored events match the query; nextCursor is the id of
\* the last returned event when hasMore is TRUE and null otherwise; when no
\* stored event matches, the result is no events, a null nextCursor and
\* hasMore = FALSE.
C15_ListPage ==
    ret.op = "list" =>
        LET L == IF ret.args.limit = None THEN 50 ELSE ret.args.limit[1]
            n == Cardinality(ListMatches(store, now, ret.args))
            page == ret.result.events
        IN /\ Len(page) <= L
           /\ ret.result.hasMore <=> n > L
           /\ ret.result.hasMore
              => /\ page /= <<>>
                 /\ ret.result.nextCursor = Some(page[Len(page)]._id)
           /\ ~ret.result.hasMore => ret.result.nextCursor = None
           /\ n = 0 => ret.result = [events |-> <<>>,
                                     nextCursor |-> None,
                                     hasMore |-> FALSE]

\* ====================================================== filters of a reader
\* Events of two actions and three actors, within an organization or none,
\* and readers that combine the filters of list and of listByAction
ReadEvents ==
    {[BaseEvent EXCEPT !.action = a[1], !.actor = [type |-> a[2], id |-> a[3]],
                       !.organizationId = g, !.occurredAt = o] :
        a \in {<<"user.signed_in", "user", "u1">>,
               <<"user.signed_in", "user", "u2">>,
               <<"job.finished", "system", "u1">>},
        g \in {None, Some("A")},
        o \in {None, Some(0)}}

FilteredListings ==
    {[NoFilters EXCEPT !.organizationId = g, !.action = a,
                       !.actorType = c[1], !.actorId = c[2], !.limit = l] :
        g \in {None, Some(""), Some("A")},
        a \in {None, Some(""), Some("user.signed_in")},
        c \in {<<None, None>>, <<Some("user"), Some("u1")>>},
        l \in {None, Some(1)}}

ActionListings ==
    {[action |-> a, organizationId |-> g, startTime |-> b, endTime |-> None,
      limit |-> l] :
        a \in {"user.signed_in", "job.finished"},
        g \in {None, Some(""), Some("A")},
        b \in {None, Some(1)},
        l \in {None, Some(1)}}

ReadLog ==
    \E args \in ReadEvents :
        Fits(log(store, nextId, now, args), MaxEvents) /\ Log(args)
ReadList == \E args \in FilteredListings : List(args)
ReadListByAction == \E args \in ActionListings : ListByAction(args)

NextRead ==
    \/ ReadLog
    \/ ReadList
    \/ ReadListByAction

SpecRead == Init /\ [][NextRead]_vars

\* C16: the filters of list take precedence organizationId > action >
\* (actorType and actorId): a call with an organizationId returns what the
\* call with that organizationId, the same time bounds and limit and no
\* action or actor argument returns, and a call with an action and no
\* organizationId returns what the call without the actor arguments returns.
C16_FilterPrecedence ==
    ret.op = "list" =>
        /\ ret.args.organizationId /= None
           => ret.result = list(store, now,
                  [ret.args EXCEPT !.action = None, !.actorType = None,
                                   !.actorId = None])
        /\ (ret.args.organizationId = None /\ ret.args.action /= None)
           => ret.result = list(store, now,
                  [ret.args EXCEPT !.actorType = None, !.actorId = None])

\* C20: listByAction returns at most limit events, each with the action of
\* the call, occurredAt within [startTime, endTime] and, when an
\* organizationId is supplied, that organizationId, in non-increasing
\* occurredAt order.
C20_ListByAction ==
    ret.op = "listByAction" =>
        LET limit == IF ret.args.limit = None THEN 50 ELSE ret.args.limit[1]
            startTime == IF ret.args.startTime = None THEN 0
                         ELSE ret.args.startTime[1]
            endTime == IF ret.args.endTime = None THEN now + OneDay
                       ELSE ret.args.endTime[1]
            events == ret.result
        IN /\ Len(events) <= limit
           /\ \A i \in 1..Len(events) :
                  /\ events[i].action = ret.args.action
                  /\ startTime <= events[i].occurredAt
                  /\ events[i].occurredAt <= endTime
                  /\ ret.args.organizationId /= None
                     => events[i].organizationId = ret.args.organizationId
           /\ \A i, j \in 1..Len(events) :
                  i < j => events[i].occurredAt >= events[j].occurredAt

\* ========================================================= events of actor
\* Three actors logging events, in any order of occurredAt, and readers
\* asking for the events of one of them
ActorEvents ==
    {[BaseEvent EXCEPT !.actor = [type |-> a[1], id |-> a[2]], !.occurredAt = o] :
        a \in {<<"user", "u1">>, <<"user", "u2">>, <<"system", "u1">>},
        o \in {None, Some(0), Some(2)}}

ActorListings ==
    {[actorType |-> a[1], actorId |-> a[2], startTime |-> b, endTime |-> e,
      limit |-> l] :
        a \in {<<"user", "u1">>, <<"user", "u2">>, <<"system", "u1">>},
        b \in {None, Some(1)},
        e \in {None, Some(1)},
        l \in {None, Some(1)}}

ActorLog ==
    \E args \in ActorEvents :
        Fits(log(store, nextId, now, args), MaxEvents) /\ Log(args)
ActorListByActor == \E args \in ActorListings : ListByActor(args)

NextActor ==
    \/ ActorLog
    \/ ActorListByActor

SpecActor == Init /\ [][NextActor]_vars

\* The stored events of the actor and the window of a listByActor call
ActorMatches(s, t, args) ==
    LET startTime == IF args.startTime = None THEN 0 ELSE args.startTime[1]
        endTime == IF args.endTime = None THEN t + OneDay ELSE args.endTime[1]
    IN {e \in Range(s) :
           /\ e.actor.type = args.actorType
           /\ e.actor.id = args.actorId
           /\ startTime <= e.occurredAt
           /\ e.occurredAt <= endTime}

\* C19: listByActor returns at most limit events, each of the actor type
\* and actor id of the call with occurredAt within [startTime, endTime], in
\* non-increasing occurredAt order; they are the most recent such events:
\* min(limit, number of such events) of them, none twice, and no such event
\* left out is newer than a returned one.
C19_ListByActor ==
    ret.op = "listByActor" =>
        LET limit == IF ret.args.limit = None THEN 50 ELSE ret.args.limit[1]
            matching == ActorMatches(store, now, ret.args)
            events == ret.result
        IN /\ Len(events) <= limit
           /\ \A i \in 1..Len(events) : events[i] \in matching
           /\ \A i, j \in 1..Len(events) :
                  i < j => /\ events[i].occurredAt >= events[j].occurredAt
                           /\ events[i]._id /= events[j]._id
           /\ Len(events) = Min(limit, Cardinality(matching))
           /\ \A m \in matching \ Range(events) :
                  \A i \in 1..Len(events) : m.occurredAt <= events[i].occurredAt

\* Of two events of the actor, the one logged first being the newer,
\* listByActor with limit 1 has returned that one.
C19_Witness ==
    /\ ret.op = "listByActor"
    /\ ret.args.limit = Some(1)
    /\ Cardinality(ActorMatches(store, now, ret.args)) = 2
    /\ Len(ret.result) = 1
    /\ ret.result[1] = store[1]
    /\ store[1].occurredAt > store[2].occurredAt

\* ============================================================== annotation
\* Events logged with and without metadata and tags, and an annotator that
\* supplies metadata, tags, both or neither, for stored and missing events
AnnotatedEvents ==
    {[BaseEvent EXCEPT !.metadata = d[1], !.tags = d[2], !.occurredAt = Some(0)] :
        d \in {<<None, None>>,
               <<Some([source |-> "web", exported |-> "no"]), Some(<<"billing">>)>>}}

Annotations ==
    {[eventId |-> i, metadata |-> m, tags |-> g] :
        i \in EventIds,
        m \in {None, Some([exported |-> "yes", approver |-> "r1"])},
        g \in {None, Some(<<>>), Some(<<"exported">>)}}

AnnotateLog ==
    \E args \in AnnotatedEvents :
        Fits(log(store, nextId, now, args), MaxEvents) /\ Log(args)
AnnotateUpdateEvent == \E args \in Annotations : UpdateEvent(args)

NextAnnotate ==
    \/ AnnotateLog
    \/ AnnotateUpdateEvent

SpecAnnotate == Init /\ [][NextAnnotate]_vars

\* The keys of an optional record
Keys(o) == IF o = None THEN {} ELSE DOMAIN o[1]

\* C17: updateEvent on a stored event returns without error; when metadata
\* is supplied the event's metadata holds the supplied keys with the
\* supplied values and the other stored keys with their stored values, and
\* no further key; when tags are supplied its tags are the supplied tags;
\* what is not supplied stays as it is, as do its other fields and every
\* other event.
C17_UpdateMerges ==
    [][(ret'.op = "updateEvent" /\ ret'.args.eventId \in Ids(store))
       => /\ ~ret'.threw
          /\ Len(store') = Len(store)
          /\ \A i \in 1..Len(store) :
                 IF store[i]._id /= ret'.args.eventId
                 THEN store'[i] = store[i]
                 ELSE LET e == store[i]
                          f == store'[i]
                          supplied == ret'.args.metadata
                      IN /\ [f EXCEPT !.metadata = e.metadata, !.tags = e.tags] = e
                         /\ f.tags = (IF ret'.args.tags = None THEN e.tags
                                      ELSE ret'.args.tags)
                         /\ IF supplied = None THEN f.metadata = e.metadata
                            ELSE /\ f.metadata /= None
                                 /\ Keys(f.metadata) = Keys(e.metadata) \cup Keys(supplied)
                                 /\ \A k \in Keys(supplied) :
                                        f.metadata[1][k] = supplied[1][k]
                                 /\ \A k \in Keys(e.metadata) \ Keys(supplied) :
                                        f.metadata[1][k] = e.metadata[1][k]
          /\ (ret'.args.metadata = None /\ ret'.args.tags = None)
             => store' = store]_vars

\* An update has overwritten one stored key, kept another, added a third and
\* replaced the tags of the first event, next to a second, untouched event.
C17_Witness ==
    /\ ret.op = "updateEvent"
    /\ Len(store) = 2
    /\ ret.args.eventId = store[1]._id
    /\ store[1].metadata =
           Some([source |-> "web", exported |-> "yes", approver |-> "r1"])
    /\ store[1].tags = Some(<<"exported">>)
    /\ store[2].metadata = Some([source |-> "web", exported |-> "no"])
    /\ store[2].tags = Some(<<"billing">>)

\* ======================================================= statistics, exact
\* The stored events that a getStats call is to count: those within the
\* window, of the supplied organization when there is one.
StatMatches(s, t, args) ==
    LET startTime == IF args.startTime = None THEN t - ThirtyDays
                     ELSE args.startTime[1]
        endTime == IF args.endTime = None THEN t ELSE args.endTime[1]
    IN {e \in Range(s) :
           /\ startTime <= e.occurredAt
           /\ e.occurredAt <= endTime
           /\ args.organizationId /= None
              => e.organizationId = args.organizationId}

\* C18: getStats returns as totalEvents the number of stored events with
\* startTime <= occurredAt <= endTime, of the supplied organization when one
\* is supplied, and in eventsByAction, eventsByActorType and eventsByResult
\* the number of those events per action, actor type and result; the call
\* with an organization so counts the events of that organization that the
\* call without one counts over the same window.
C18_StatsExact ==
    ret.op = "getStats" =>
        LET counted == StatMatches(store, now, ret.args)
        IN /\ ret.result.totalEvents = Cardinality(counted)
           /\ DOMAIN ret.result.eventsByAction = {e.action : e \in counted}
           /\ \A a \in DOMAIN ret.result.eventsByAction :
                  ret.result.eventsByAction[a]
                  = Cardinality({e \in counted : e.action = a})
           /\ DOMAIN ret.result.eventsByActorType = {e.actor.type : e \in counted}
           /\ \A a \in DOMAIN ret.result.eventsByActorType :
                  ret.result.eventsByActorType[a]
                  = Cardinality({e \in counted : e.actor.type = a})
           /\ DOMAIN ret.result.eventsByResult = {e.result[1] : e \in counted}
           /\ \A r \in DOMAIN ret.result.eventsByResult :
                  ret.result.eventsByResult[r]
                  = Cardinality({e \in counted : e.result[1] = r})

\* ================================================ log without a transaction
\* log run as two steps with no transaction around them: the lookup of
\* lines 62-73, which returns at once when it finds the key, and the insert
\* of lines 75-92.  seen holds the ids stored when the lookup ran.
RaceLookup(c, args) ==
    LET existing == logLookup(store, args)
    IN /\ calls[c].pc \in {"idle", "done"}
       /\ IF existing /= None
          THEN /\ calls' = [calls EXCEPT ![c] =
                     [pc |-> "done", args |-> args, seen |-> Ids(store),
                      result |-> [eventId |-> existing[1]._id, created |-> FALSE]]]
               /\ ret' = [op |-> "log", args |-> args,
                          result |-> [eventId |-> existing[1]._id,
                                      created |-> FALSE]]
          ELSE /\ calls' = [calls EXCEPT ![c] =
                     [pc |-> "looked", args |-> args, seen |-> Ids(store)]]
               /\ ret' = ret
       /\ UNCHANGED <<store, nextId, now, pager, retention, issued>>

RaceInsert(c) ==
    /\ calls[c].pc = "looked"
    /\ \E t \in Clock :
           LET out == logInsert(store, nextId, t, calls[c].args)
           IN /\ store' = out.store
              /\ nextId' = out.nextId
              /\ now' = t
              /\ ret' = [op |-> "log", args |-> calls[c].args, result |-> out.result]
              /\ issued' = issued \cup NewKeys(store, out.store)
              /\ calls' = [calls EXCEPT ![c] =
                     [pc |-> "done", args |-> calls[c].args,
                      seen |-> calls[c].seen, result |-> out.result]]
              /\ UNCHANGED <<pager, retention>>

RacingEvents ==
    {[BaseEvent EXCEPT !.idempotencyKey = k, !.occurredAt = Some(0)] :
        k \in {Some("k1"), Some("k2")}}

RaceStart == \E c \in Callers : \E args \in RacingEvents : RaceLookup(c, args)
RaceFinish ==
    \E c \in Callers :
        /\ calls[c].pc = "looked"
        /\ Fits(logInsert(store, nextId, now, calls[c].args), MaxEvents)
        /\ RaceInsert(c)

NextRace ==
    \/ RaceStart
    \/ RaceFinish

SpecRace == Init /\ [][NextRace]_vars

\* C21: when the lookup and the insert of log are two steps that interleave
\* with another log call, two calls with the same non-empty idempotencyKey
\* can both return created = TRUE and leave two stored events carrying the
\* key (the witness); a second event with a stored key is only ever
\* inserted by a call whose lookup ran before that key's event was stored.
C21_RaceNeedsInterleaving ==
    [][\A c \in Callers :
           (calls[c].pc = "looked" /\ calls'[c].pc = "done")
           => /\ calls'[c].result.created
              /\ KeyCount(store', calls[c].args.idempotencyKey[1])
                 = KeyCount(store, calls[c].args.idempotencyKey[1]) + 1
              /\ \A e \in Range(store) :
                     e.idempotencyKey = calls[c].args.idempotencyKey
                     => e._id \notin calls[c].seen]_vars

\* Two calls with the same key have both returned created = TRUE, and two
\* stored events carry the key.
C21_Witness ==
    \E c, d \in Callers :
        /\ c /= d
        /\ calls[c].pc = "done"
        /\ calls[d].pc = "done"
        /\ calls[c].args.idempotencyKey = calls[d].args.idempotencyKey
        /\ Truthy(calls[c].args.idempotencyKey)
        /\ calls[c].result.created
        /\ calls[d].result.created
        /\ calls[c].result.eventId /= calls[d].result.eventId
        /\ {calls[c].result.eventId, calls[d].result.eventId} \subseteq Ids(store)
        /\ KeyCount(store, calls[c].args.idempotencyKey[1]) = 2

\* ========================================================== driving filter
\* Events of two actors and actions, within an organization or none, and
\* readers whose listing is driven by the organization, the action or the
\* actor, with and without lower-ranked filters next to it
DrivenEvents ==
    {[BaseEvent EXCEPT !.action = a[1], !.actor = [type |-> a[2], id |-> a[3]],
                       !.organizationId = g, !.occurredAt = Some(o)] :
        a \in {<<"user.signed_in", "user", "u1">>,
               <<"job.finished", "system", "u1">>},
        g \in {None, Some("A")},
        o \in {0, 2}}

DrivenListings ==
    {[NoFilters EXCEPT !.organizationId = f[1], !.action = f[2],
                       !.actorType = f[3], !.actorId = f[4],
                       !.startTime = b, !.limit = l] :
        f \in {<<Some("A"), None, None, None>>,
               <<Some("A"), Some("job.finished"), Some("user"), Some("u1")>>,
               <<Some(""), Some("user.signed_in"), None, None>>,
               <<None, None, Some("user"), Some("u1")>>},
        b \in {None, Some(1)},
        l \in {None, Some(1)}}

DrivenLog ==
    \E args \in DrivenEvents :
        Fits(log(store, nextId, now, args), MaxEvents) /\ Log(args)
DrivenList == \E args \in DrivenListings : List(args)

NextDriven ==
    \/ DrivenLog
    \/ DrivenList

SpecDriven == Init /\ [][NextDriven]_vars

\* The stored events selected by the filter that drives a list call, within
\* its time bounds
DrivenMatches(s, t, args) ==
    LET startTime == IF args.startTime = None THEN 0 ELSE args.startTime[1]
        endTime == IF args.endTime = None THEN t + OneDay ELSE args.endTime[1]
    IN {e \in Range(s) :
           /\ startTime <= e.occurredAt
           /\ e.occurredAt <= endTime
           /\ IF Truthy(args.organizationId)
              THEN e.organizationId = args.organizationId
              ELSE IF Truthy(args.action)
              THEN e.action = args.action[1]
              ELSE /\ e.actor.type = args.actorType[1]
                   /\ e.actor.id = args.actorId[1]}

\* C22: a list call driven by organizationId, by action or by the actor
\* pair returns min(limit, n) of the n stored events that match the driving
\* filter within [startTime, endTime], none twice, in non-increasing
\* occurredAt order, and no matching event left out has a greater
\* occurredAt than a returned one.
C22_ListTopN ==
    (/\ ret.op = "list"
     /\ \/ Truthy(ret.args.organizationId)
        \/ Truthy(ret.args.action)
        \/ Truthy(ret.args.actorType) /\ Truthy(ret.args.actorId))
    => LET limit == IF ret.args.limit = None THEN 50 ELSE ret.args.limit[1]
           matching == DrivenMatches(store, now, ret.args)
           events == ret.result.events
       IN /\ Len(events) = Min(limit, Cardinality(matching))
          /\ \A i \in 1..Len(events) : events[i] \in matching
          /\ \A i, j \in 1..Len(events) :
                 i < j => /\ events[i].occurredAt >= events[j].occurredAt
                          /\ events[i]._id /= events[j]._id
          /\ \A m \in matching \ Range(events) :
                 \A i \in 1..Len(events) : m.occurredAt <= events[i].occurredAt

\* Of two events of the organization, the one logged first being the newer,
\* a listing of the organization with limit 1 has returned that one, the
\* action and actor arguments next to it notwithstanding.
C22_Witness ==
    /\ ret.op = "list"
    /\ ret.args.organizationId = Some("A")
    /\ ret.args.action = Some("job.finished")
    /\ ret.args.limit = Some(1)
    /\ Cardinality(DrivenMatches(store, now, ret.args)) = 2
    /\ ret.result.events = <<store[1]>>
    /\ store[1].occurredAt > store[2].occurredAt
    /\ store[1].action /= "job.finished"

\* C23: every event that list returns has startTime <= occurredAt <=
\* endTime for the bounds of the call, whichever filter drives it, a call
\* with no organizationId, action or actor filter included.
C23_ListWithinBounds ==
    ret.op = "list" =>
        LET startTime == IF ret.args.startTime = None THEN 0
                         ELSE ret.args.startTime[1]
            endTime == IF ret.args.endTime = None THEN now + OneDay
                       ELSE ret.args.endTime[1]
        IN \A i \in 1..Len(ret.result.events) :
               /\ startTime <= ret.result.events[i].occurredAt
               /\ ret.result.events[i].occurredAt <= endTime

\* ============================================================== over-fetch
\* More events of one action than listByAction fetches, of two
\* organizations, and readers asking for those of one organization
OverfetchEvents ==
    {[BaseEvent EXCEPT !.organizationId = g, !.occurredAt = Some(o)] :
        g \in {None, Some("A"), Some("B")},
        o \in {0, 2}}

OverfetchListings ==
    {[action |-> "user.signed_in", organizationId |-> g, startTime |-> None,
      endTime |-> None, limit |-> Some(1)] :
        g \in {Some(""), Some("A")}}

OverfetchLog ==
    \E args \in OverfetchEvents :
        Fits(log(store, nextId, now, args), MaxEvents + 1) /\ Log(args)
OverfetchListByAction == \E args \in OverfetchListings : ListByAction(args)

NextOverfetch ==
    \/ OverfetchLog
    \/ OverfetchListByAction

SpecOverfetch == Init /\ [][NextOverfetch]_vars

\* C24: when more than 2 * limit stored events carry the action within the
\* window and fewer than limit of the 2 * limit most recent of them belong
\* to the organization of the call, listByAction returns fewer than limit
\* events: those of the 2 * limit most recent that belong to the
\* organization, whatever older events of the action and organization are
\* stored.
C24_UnderReport ==
    (ret.op = "listByAction" /\ ret.args.organizationId /= None)
    => LET limit == IF ret.args.limit = None THEN 50 ELSE ret.args.limit[1]
           carrying == Reverse(by_action_and_occurredAt(
                           store, ret.args.action, 0, now + OneDay))
           recent == Take(carrying, 2 * limit)
           ofOrg == {e \in Range(recent) :
                        e.organizationId = ret.args.organizationId}
       IN (Len(carrying) > 2 * limit /\ Cardinality(ofOrg) < limit)
          => /\ Len(ret.result) < limit
             /\ Range(ret.result) = ofOrg

\* ======================================================== scoped retention
\* Events of three organizations and the retention job run for one of them
ScopedEvents ==
    {[BaseEvent EXCEPT !.organizationId = g, !.occurredAt = Some(o)] :
        g \in {Some(""), Some("A"), Some("B")},
        o \in {0, 2}}

ScopedRetentions ==
    {[olderThan |-> 1, organizationId |-> g, batchSize |-> Some(b)] :
        g \in {Some(""), Some("A")},
        b \in 1..(MaxRetained - 1)}

\* No writes run while the job is in progress.
ScopedLog ==
    /\ ~retention.active
    /\ \E args \in ScopedEvents :
           Fits(log(store, nextId, now, args), MaxRetained) /\ Log(args)

ScopedStart == \E args \in ScopedRetentions : StartRetention(args)

NextScoped ==
    \/ ScopedLog
    \/ ScopedStart
    \/ RepeatRetention

\* The scheduler keeps re-invoking the job while it reports hasMore.
SpecScoped == Init /\ [][NextScoped]_vars /\ WF_vars(RepeatRetention)

\* C25: a deleteOldEvents call removes only events with occurredAt <
\* olderThan and, when an organizationId is supplied, only events of that
\* organization; it removes at most batchSize events, returns their number
\* as deleted, and leaves every other stored event stored and as it was, in
\* the same order.
C25_DeleteFrame ==
    [][ret'.op = "deleteOldEvents" =>
          LET args == ret'.args
              batchSize == OrElse(args.batchSize, DefaultBatchSize)
              removed == Range(store) \ Range(store')
          IN /\ \A e \in removed :
                    /\ e.occurredAt < args.olderThan
                    /\ args.organizationId /= None
                       => e.organizationId = args.organizationId
             /\ Cardinality(removed) <= batchSize
             /\ ret'.result.deleted = Cardinality(removed)
             /\ store' = SelectSeq(store, LAMBDA e : e \notin removed)]_vars

\* C26: with an organizationId, batchSize >= 1 and no concurrent writes,
\* the repeated deleteOldEvents calls come to return hasMore = FALSE, and
\* whenever such a call returns hasMore = FALSE no stored event of the
\* organization has occurredAt < olderThan.
C26_ScopedRetentionEnds ==
    /\ []((/\ retention.active
           /\ retention.args.organizationId /= None
           /\ ~retention.hasMore)
          => \A e \in Range(store) :
                 e.organizationId = retention.args.organizationId
                 => e.occurredAt >= retention.args.olderThan)
    /\ ((retention.active /\ retention.args.organizationId /= None)
        ~> (retention.active /\ ~retention.hasMore))

\* C27: without organizationId, deleteOldEvents returns hasMore = TRUE
\* exactly when the store held more than batchSize events of any age when
\* the call started, however many of them are older than olderThan.
C27_HasMoreCountsAllAges ==
    [][(ret'.op = "deleteOldEvents" /\ ret'.args.organizationId = None)
        => (ret'.result.hasMore
            <=> Len(store) > OrElse(ret'.args.batchSize, DefaultBatchSize))]_vars

\* A call has deleted nothing and reported hasMore while an event older than
\* olderThan is stored behind the first batchSize + 1 records.
C27_Witness ==
    /\ ret.op = "deleteOldEvents"
    /\ ret.args.organizationId = None
    /\ ret.result.deleted = 0
    /\ ret.result.hasMore
    /\ \E i \in DOMAIN store :
           /\ i > OrElse(ret.args.batchSize, DefaultBatchSize) + 1
           /\ store[i].occurredAt < ret.args.olderThan

\* ============================================================ list cursors
\* Events of two actors, listed by actor arguments and page size
CursorEvents ==
    {[BaseEvent EXCEPT !.actor = [type |-> a[1], id |-> a[2]],
                       !.occurredAt = Some(o)] :
        a \in {<<"user", "u1">>, <<"system", "u2">>},
        o \in {0, 2}}

CursorListings ==
    {[NoFilters EXCEPT !.actorType = f[1], !.actorId = f[2], !.limit = l] :
        f \in {<<None, None>>,
               <<Some("user"), None>>,
               <<None, Some("u1")>>,
               <<Some("user"), Some("u1")>>},
        l \in {None, Some(0), Some(1)}}

CursorLog ==
    \E args \in CursorEvents :
        Fits(log(store, nextId, now, args), MaxEvents) /\ Log(args)
CursorList == \E args \in CursorListings : List(args)

NextCursor ==
    \/ CursorLog
    \/ CursorList

SpecCursor == Init /\ [][NextCursor]_vars

C30_LoneActorArgumentIgnored ==
    (/\ ret.op = "list"
     /\ ret.args.organizationId = None
     /\ ret.args.action = None
     /\ (ret.args.actorType = None) /= (ret.args.actorId = None))
    => LET limit == OrElse(ret.args.limit, DefaultLimit)
           n == Min(limit, Len(store))
       IN /\ ret.result.events = [i \in 1..n |-> store[Len(store) + 1 - i]]
          /\ ret.result.hasMore <=> Len(store) > limit
          /\ ret.result.nextCursor =
                 IF Len(store) > limit /\ n > 0
                 THEN Some(store[Len(store) + 1 - n]._id)
                 ELSE None

\* A list call with actorType alone has returned an event of another actor
\* type.
C30_Witness ==
    /\ ret.op = "list"
    /\ ret.args.actorType = Some("user")
    /\ ret.args.actorId = None
    /\ \E i \in DOMAIN ret.result.events :
           ret.result.events[i].actor.type = "system"

\* C29: an empty-string idempotencyKey is treated as no key: every log call
\* and every logBatch element with idempotencyKey "" inserts a new event
\* carrying that key and returns created = TRUE with the id of that event,
\* although events with the empty key may be stored already.
C29_EmptyKeyIsNoKey ==
    [][/\ (ret'.op = "log" /\ ret'.args.idempotencyKey = Some(""))
          => /\ ret'.result.created
             /\ ret'.result.eventId \notin Ids(store)
             /\ Len(store') = Len(store) + 1
             /\ store'[Len(store')]._id = ret'.result.eventId
             /\ store'[Len(store')].idempotencyKey = Some("")
       /\ ret'.op = "logBatch"
          => \A i \in 1..Len(ret'.args) :
                 ret'.args[i].idempotencyKey = Some("")
                 => /\ ret'.result[i].created
                    /\ ret'.result[i].eventId \notin Ids(store)
                    /\ \A j \in 1..Len(ret'.args) :
                           j /= i => ret'.result[j].eventId /= ret'.result[i].eventId
                    /\ \E e \in Range(store') :
                           /\ e._id = ret'.result[i].eventId
                           /\ e.idempotencyKey = Some("")]_vars

\* Both elements of a batch carried the empty key, both were created, and
\* two stored events carry the empty key.
C29_Witness ==
    /\ ret.op = "logBatch"
    /\ Len(ret.args) = 2
    /\ ret.args[1].idempotencyKey = Some("")
    /\ ret.args[2].idempotencyKey = Some("")
    /\ ret.result[1].created
    /\ ret.result[2].created
    /\ ret.result[1].eventId /= ret.result[2].eventId
    /\ Cardinality({e \in Range(store) : e.idempotencyKey = Some("")}) = 2

====
